---- MODULE Spec2Model ----
(***************************************************************************)
(* Kushtia Iftari Tracker: the App component's vote handler, the shared    *)
(* Firestore collection "iftar_events" it writes to, and the prayer-time   *)
(* refresh (fetchTimings).  Each device runs one page; the store is shared.*)
(***************************************************************************)
EXTENDS Integers, Sequences, FiniteSets, TLC

\* ------------------------------------------------------------------ bounds
NumDevices == 2      \* devices (pages) voting against the shared store
NumEvents == 2       \* documents ever created in iftar_events (ids 1..NumEvents)
MaxCalls == 3        \* handleVote calls issued by all devices together
MaxInflight == 2     \* handleVote calls of one device awaiting updateDoc
MaxDeletes == 1      \* documents deleted from iftar_events
HoursPerDay == 2     \* hours of a model day ("HH" of a time string is 0..HoursPerDay-1)
MinutesPerHour == 2  \* minutes of a model hour ("mm" is 0..MinutesPerHour-1)
TicksPerMinute == 2  \* clock resolution: instants of Date per minute
NumDays == 2         \* days the clock runs through
MaxRefreshes == 2    \* fetchTimings calls awaiting their responses
MaxReloads == 1      \* page reloads of all devices together
MaxPrompts == 4      \* toggleAdmin and handleChangePassword calls of all devices together
MaxItems == 13       \* events a snapshot of iftar_events delivers to the page

\* const itemsPerPage = 6
itemsPerPage == 6

Devices == 1..NumDevices
EventIds == 1..NumEvents
VoteTypes == {"true", "false"}

\* JavaScript's undefined (userVotes[id] of an absent key) and a missing document
Undefined == "undefined"
NoDoc == [exists |-> FALSE, true_votes |-> 0, false_votes |-> 0]

VARIABLES
  docs,          \* iftar_events: id -> NoDoc or a document with its two counters
  nextId,        \* the id the next addDoc creates (ids are never reused)
  userVotes,     \* per device: the React state userVotes, a partial map id -> type
  localStorage,  \* per browser: the string under 'kushtia_iftar_votes'
  calls,         \* per device: handleVote calls awaiting updateDoc, oldest first
  ncalls,        \* handleVote calls issued so far
  contrib,       \* history: per device and event, the increments the store applied
  hist,          \* history: per device, its votes that ran to setUserVotes, oldest first
  startup,       \* per device: how far the page's mount effects on userVotes have run
  nreloads,      \* page reloads so far
  persisted,     \* history: per device, while its page starts up, the text that was
                 \* under the key when the page was reloaded
  storageOf      \* per device (page): the browser whose localStorage the page uses

VARIABLES
  clock,           \* the current instant (what new Date() returns), in ticks
  timings,         \* React state timings: [sahri, iftar], each a TimingInfo or Null
  loadingTimings,  \* React state loadingTimings
  mounted,         \* the component is mounted and its interval timer is set
  refreshes,       \* fetchTimings calls awaiting Promise.all, in start order
  shown,           \* history: today and now of the last refresh that called setTimings
  lastOutcome      \* history: the two responses the last settled refresh received

VARIABLES
  eventsLength,    \* events.length of the React state events of one page
  currentPage,     \* React state currentPage of that page
  lastSnapshot     \* history: events.length and currentPage before the last snapshot

VARIABLES
  isAdmin,         \* per device: React state isAdmin
  adminPassword,   \* per device: React state adminPassword, the password the page holds
  settings,        \* the store's document settings/admin_config
  adminFetch,      \* per device: where the startup fetchAdminPassword stands
  passwordChange,  \* per device: the handleChangePassword call awaiting setDoc
  nprompts,        \* toggleAdmin and handleChangePassword calls made so far
  attempt          \* history: what the last toggleAdmin or handleChangePassword was given

timeVars == <<clock, timings, loadingTimings, mounted, refreshes, shown, lastOutcome>>

voteVars == <<docs, nextId, userVotes, localStorage, calls, ncalls, contrib, hist>>

storageVars == <<startup, nreloads, persisted, storageOf>>

pageVars == <<eventsLength, currentPage, lastSnapshot>>

adminVars == <<isAdmin, adminPassword, settings, adminFetch, passwordChange, nprompts, attempt>>

\* What the vote handler, the refresh and the pagination each leave alone
nonVoteVars == <<storageVars, timeVars, pageVars, adminVars>>
nonTimeVars == <<voteVars, storageVars, pageVars, adminVars>>
nonPageVars == <<voteVars, storageVars, timeVars, adminVars>>
nonAdminVars == <<voteVars, storageVars, timeVars, pageVars>>

\* ------------------------------------------------------- data and helpers
\* interface IftarEvent, the two counters
NewCounters == [true_votes |-> 0, false_votes |-> 0]

\* The event present at start carries the votes of devices that voted earlier
EarlierVotes == [true_votes |-> 2, false_votes |-> 1]

\* The counters a document starts with: the event present at start, or addDoc's 0/0
base == [e \in EventIds |-> IF e = 1 THEN EarlierVotes ELSE NewCounters]

\* A document of iftar_events holding the counters c
Doc(c) == [exists |-> TRUE, true_votes |-> c.true_votes, false_votes |-> c.false_votes]

\* [type === 'true' ? 'true_votes' : 'false_votes']
Field(type) == IF type = "true" THEN "true_votes" ELSE "false_votes"

\* userVotes[id]
Lookup(m, id) == IF id \in DOMAIN m THEN m[id] ELSE Undefined

\* { ...userVotes, [id]: type }
SpreadSet(m, id, type) == [k \in (DOMAIN m) \cup {id} |-> IF k = id THEN type ELSE m[k]]

\* const n = { ...userVotes }; delete n[id]
SpreadDelete(m, id) == [k \in (DOMAIN m) \ {id} |-> m[k]]

EmptyVotes == [k \in {} |-> "true"]

\* JSON.stringify(userVotes): the "key":"value" members of the object text
JSONstringify(m) == {<<k, m[k]>> : k \in DOMAIN m}

\* JSON.parse(savedVotes)
JSONparse(s) == [k \in {p[1] : p \in s} |-> (CHOOSE p \in s : p[1] = k)[2]]

\* The branch handleVote takes for the captured vote
Branch(currentVote, type) ==
  IF currentVote = type THEN "withdraw"
  ELSE IF currentVote # Undefined THEN "change"
  ELSE "new"

\* Mutants of Increments.  A withdrawal that sends no decrement:
IncrementsNoWithdraw(currentVote, type) ==
  CASE Branch(currentVote, type) = "withdraw" ->
         [f \in {"true_votes", "false_votes"} |-> 0]
    [] Branch(currentVote, type) = "change" ->
         [f \in {"true_votes", "false_votes"} |->
            IF f = Field(type) THEN 1 ELSE IF f = Field(currentVote) THEN -1 ELSE 0]
    [] OTHER ->
         [f \in {"true_votes", "false_votes"} |-> IF f = Field(type) THEN 1 ELSE 0]

\* a new vote that increments the other counter:
IncrementsNewWrongField(currentVote, type) ==
  CASE Branch(currentVote, type) = "withdraw" ->
         [f \in {"true_votes", "false_votes"} |-> IF f = Field(type) THEN -1 ELSE 0]
    [] Branch(currentVote, type) = "change" ->
         [f \in {"true_votes", "false_votes"} |->
            IF f = Field(type) THEN 1 ELSE IF f = Field(currentVote) THEN -1 ELSE 0]
    [] OTHER ->
         [f \in {"true_votes", "false_votes"} |-> IF f = Field(type) THEN 0 ELSE 1]

\* a changed vote that does not take the old vote back:
IncrementsOnlyAddOnChange(currentVote, type) ==
  CASE Branch(currentVote, type) = "withdraw" ->
         [f \in {"true_votes", "false_votes"} |-> IF f = Field(type) THEN -1 ELSE 0]
    [] OTHER ->
         [f \in {"true_votes", "false_votes"} |-> IF f = Field(type) THEN 1 ELSE 0]

\* a changed vote that only takes the old vote back:
IncrementsOnlyTakeOnChange(currentVote, type) ==
  CASE Branch(currentVote, type) = "withdraw" ->
         [f \in {"true_votes", "false_votes"} |-> IF f = Field(type) THEN -1 ELSE 0]
    [] Branch(currentVote, type) = "change" ->
         [f \in {"true_votes", "false_votes"} |-> IF f = Field(currentVote) THEN -1 ELSE 0]
    [] OTHER ->
         [f \in {"true_votes", "false_votes"} |-> IF f = Field(type) THEN 1 ELSE 0]

\* The field increments handleVote hands to updateDoc: increment(-1) / increment(1)
Increments(currentVote, type) ==
  CASE Branch(currentVote, type) = "withdraw" ->
         [f \in {"true_votes", "false_votes"} |-> IF f = Field(type) THEN -1 ELSE 0]
    [] Branch(currentVote, type) = "change" ->
         [f \in {"true_votes", "false_votes"} |->
            IF f = Field(type) THEN 1 ELSE IF f = Field(currentVote) THEN -1 ELSE 0]
    [] OTHER ->
         [f \in {"true_votes", "false_votes"} |-> IF f = Field(type) THEN 1 ELSE 0]

\* Mutants of NextUserVotes.  A withdrawal that keeps the record:
NextUserVotesKeepsOnWithdraw(captured, id, type) == SpreadSet(captured, id, type)

\* a changed vote that is not recorded:
NextUserVotesStaleOnChange(captured, id, type) ==
  CASE Branch(Lookup(captured, id), type) = "withdraw" -> SpreadDelete(captured, id)
    [] Branch(Lookup(captured, id), type) = "change" -> captured
    [] OTHER -> SpreadSet(captured, id, type)

\* The mapping handleVote hands to setUserVotes, built from the captured userVotes
NextUserVotes(captured, id, type) ==
  IF Branch(Lookup(captured, id), type) = "withdraw"
    THEN SpreadDelete(captured, id)
    ELSE SpreadSet(captured, id, type)

\* Mutant of ApplyIncrements: a write that lands only the fields it adds to
ApplyIncrementsAddedOnly(d, inc) ==
  [d EXCEPT !.true_votes = @ + (IF inc["true_votes"] > 0 THEN inc["true_votes"] ELSE 0),
            !.false_votes = @ + (IF inc["false_votes"] > 0 THEN inc["false_votes"] ELSE 0)]

\* Firestore applies the increments of one updateDoc to the document in one write
ApplyIncrements(d, inc) ==
  [d EXCEPT !.true_votes = @ + inc["true_votes"],
            !.false_votes = @ + inc["false_votes"]]

\* A queue without its i-th element
RemoveAt(q, i) == [j \in 1..(Len(q) - 1) |-> IF j < i THEN q[j] ELSE q[j + 1]]

\* Index of the oldest call of a queue that the store has not yet answered
FirstSent(q) == CHOOSE i \in 1..Len(q) : q[i].stage = "sent" /\ \A j \in 1..(i-1) : q[j].stage # "sent"

\* The page of a device is not starting up after a reload
NoReload == {<<"no reload">>}

\* ------------------------------------------------------------------- Init
VoteInit ==
  /\ docs = [e \in EventIds |-> IF e = 1 THEN Doc(EarlierVotes) ELSE NoDoc]
  /\ nextId = 2
  /\ userVotes = [d \in Devices |-> EmptyVotes]
  /\ localStorage = [d \in Devices |-> JSONstringify(EmptyVotes)]
  /\ calls = [d \in Devices |-> <<>>]
  /\ ncalls = 0
  /\ contrib = [d \in Devices |-> [e \in EventIds |-> NewCounters]]
  /\ hist = [d \in Devices |-> <<>>]
  /\ startup = [d \in Devices |-> "ready"]
  /\ nreloads = 0
  /\ persisted = [d \in Devices |-> NoReload]

\* ---------------------------------------------------------------- actions
\* handleAddEvent: addDoc creates a document with both counters 0
handleAddEvent ==
  /\ nextId \in EventIds
  /\ docs' = [docs EXCEPT ![nextId] = Doc(NewCounters)]
  /\ nextId' = nextId + 1
  /\ UNCHANGED <<userVotes, localStorage, calls, ncalls, contrib, hist, nonVoteVars>>

\* handleDelete: deleteDoc removes the document
handleDelete(id) ==
  /\ docs[id].exists
  /\ Cardinality({e \in EventIds : e < nextId /\ ~docs[e].exists}) < MaxDeletes
  /\ docs' = [docs EXCEPT ![id] = NoDoc]
  /\ UNCHANGED <<nextId, userVotes, localStorage, calls, ncalls, contrib, hist, nonVoteVars>>

\* handleVote up to its await: reads userVotes of the render the click belongs to
\* and issues updateDoc
handleVote(d, id, type) ==
  /\ startup[d] = "ready"
  /\ id < nextId
  /\ ncalls < MaxCalls
  /\ Len(calls[d]) < MaxInflight
  /\ calls' = [calls EXCEPT ![d] =
       Append(@, [id |-> id, type |-> type, userVotes |-> userVotes[d], stage |-> "sent"])]
  /\ ncalls' = ncalls + 1
  /\ UNCHANGED <<docs, nextId, userVotes, localStorage, contrib, hist, nonVoteVars>>

\* The store applies the oldest unanswered updateDoc of device d
updateDocApplied(d) ==
  /\ \E i \in 1..Len(calls[d]) : calls[d][i].stage = "sent"
  /\ LET i == FirstSent(calls[d])
         c == calls[d][i]
         inc == Increments(Lookup(c.userVotes, c.id), c.type)
     IN /\ docs[c.id].exists
        /\ docs' = [docs EXCEPT ![c.id] = ApplyIncrements(@, inc)]
        /\ contrib' = [contrib EXCEPT ![d][c.id] = ApplyIncrements(@, inc)]
        /\ calls' = [calls EXCEPT ![d][i].stage = "ok"]
  /\ UNCHANGED <<nextId, userVotes, localStorage, ncalls, hist, nonVoteVars>>

\* handleVote after its await resolved: setUserVotes, then the save effect
handleVoteResolved(d) ==
  /\ calls[d] # <<>>
  /\ Head(calls[d]).stage = "ok"
  /\ LET c == Head(calls[d])
         n == NextUserVotes(c.userVotes, c.id, c.type)
     IN /\ userVotes' = [userVotes EXCEPT ![d] = n]
        /\ localStorage' = [localStorage EXCEPT ![storageOf[d]] = JSONstringify(n)]
        /\ hist' = [hist EXCEPT ![d] = Append(@,
             [id |-> c.id, type |-> c.type, branch |-> Branch(Lookup(c.userVotes, c.id), c.type)])]
  /\ calls' = [calls EXCEPT ![d] = Tail(@)]
  /\ UNCHANGED <<docs, nextId, ncalls, contrib, nonVoteVars>>

\* Mutant of handleVoteCaught: a catch block that records the vote all the same
handleVoteCaughtRecords(d) ==
  /\ \E i \in 1..Len(calls[d]) : calls[d][i].stage = "sent"
  /\ LET c == calls[d][FirstSent(calls[d])]
         n == NextUserVotes(c.userVotes, c.id, c.type)
     IN /\ userVotes' = [userVotes EXCEPT ![d] = n]
        /\ localStorage' = [localStorage EXCEPT ![storageOf[d]] = JSONstringify(n)]
  /\ calls' = [calls EXCEPT ![d] = RemoveAt(@, FirstSent(@))]
  /\ UNCHANGED <<docs, nextId, ncalls, contrib, hist, nonVoteVars>>

\* The store rejects the oldest unanswered updateDoc of device d (the document is
\* gone, or the write is refused) and handleVote's catch block logs the error
handleVoteCaught(d) ==
  /\ \E i \in 1..Len(calls[d]) : calls[d][i].stage = "sent"
  /\ calls' = [calls EXCEPT ![d] = RemoveAt(@, FirstSent(@))]
  /\ UNCHANGED <<docs, nextId, userVotes, localStorage, ncalls, contrib, hist, nonVoteVars>>

\* ------------------------------------------------- reload and mount effects
\* The page is reloaded: a new App is constructed, useState({}) for userVotes
Reload(d) ==
  /\ startup[d] = "ready"
  /\ calls[d] = <<>>
  /\ nreloads < MaxReloads
  /\ nreloads' = nreloads + 1
  /\ userVotes' = [userVotes EXCEPT ![d] = EmptyVotes]
  /\ startup' = [startup EXCEPT ![d] = "mounting"]
  /\ persisted' = [persisted EXCEPT ![d] = localStorage[storageOf[d]]]
  /\ UNCHANGED <<docs, nextId, localStorage, calls, ncalls, contrib, hist, storageOf,
                 timeVars, pageVars, adminVars>>

\* Mutant of mountEffects: no load effect
mountEffectsNoLoad(d) ==
  /\ startup[d] = "mounting"
  /\ localStorage' = [localStorage EXCEPT ![storageOf[d]] = JSONstringify(EmptyVotes)]
  /\ startup' = [startup EXCEPT ![d] = "loaded"]
  /\ UNCHANGED <<docs, nextId, userVotes, calls, ncalls, contrib, hist, nreloads, persisted,
                 storageOf, timeVars, pageVars, adminVars>>

\* The effects of the first render.  The load effect reads the key (the save
\* effect of the device's first visit wrote it, so savedVotes is a text) and
\* hands JSON.parse(savedVotes) to setUserVotes; the save effect then writes the
\* first render's userVotes, the empty mapping.
mountEffects(d) ==
  /\ startup[d] = "mounting"
  /\ LET savedVotes == localStorage[storageOf[d]]
     IN userVotes' = [userVotes EXCEPT ![d] = JSONparse(savedVotes)]
  /\ localStorage' = [localStorage EXCEPT ![storageOf[d]] = JSONstringify(EmptyVotes)]
  /\ startup' = [startup EXCEPT ![d] = "loaded"]
  /\ UNCHANGED <<docs, nextId, calls, ncalls, contrib, hist, nreloads, persisted,
                 storageOf, timeVars, pageVars, adminVars>>

\* Mutant of saveEffect: no save after the loaded votes are rendered
saveEffectSkipped(d) ==
  /\ startup[d] = "loaded"
  /\ startup' = [startup EXCEPT ![d] = "ready"]
  /\ persisted' = [persisted EXCEPT ![d] = NoReload]
  /\ UNCHANGED <<docs, nextId, userVotes, localStorage, calls, ncalls, contrib, hist, nreloads,
                 storageOf, timeVars, pageVars, adminVars>>

\* The render with the loaded votes, then the save effect on [userVotes]
saveEffect(d) ==
  /\ startup[d] = "loaded"
  /\ localStorage' = [localStorage EXCEPT ![storageOf[d]] = JSONstringify(userVotes[d])]
  /\ startup' = [startup EXCEPT ![d] = "ready"]
  /\ persisted' = [persisted EXCEPT ![d] = NoReload]
  /\ UNCHANGED <<docs, nextId, userVotes, calls, ncalls, contrib, hist, nreloads,
                 storageOf, timeVars, pageVars, adminVars>>

\* ------------------------------------------------ prayer-time window: data
TicksPerDay == HoursPerDay * MinutesPerHour * TicksPerMinute

\* d.getDate(), d.getMonth(), d.getFullYear(): the calendar day of an instant
DayOf(t) == t \div TicksPerDay

\* formatDate(d): the DD-MM-YYYY text of the request, one per calendar day
formatDate(t) == <<"DD-MM-YYYY", DayOf(t)>>

\* tomorrow = new Date(today); tomorrow.setDate(tomorrow.getDate() + 1)
Tomorrow(t) == t + TicksPerDay

\* parseTime(timeStr, baseDate): "HH:mm" on the calendar day of baseDate, seconds
\* and milliseconds 0
parseTime(timeStr, baseDate) ==
  DayOf(baseDate) * TicksPerDay + (timeStr[1] * MinutesPerHour + timeStr[2]) * TicksPerMinute

\* The time service's answer for a date when it succeeds: data.timings and
\* data.date.readable.  Fajr falls in the first hour and Maghrib in the last,
\* both moving from day to day.
ServiceData(date) ==
  [timings |-> [Fajr |-> <<0, date[2] % MinutesPerHour>>,
                Maghrib |-> <<HoursPerDay - 1, (date[2] + 1) % MinutesPerHour>>],
   date |-> [readable |-> <<"readable", date[2]>>]]

\* What one fetch of a refresh can end in: a body with code 200, a body with
\* another code, or a rejected fetch / unparsable body
Outcomes == {"200", "not200", "throws"}

\* timings.sahri / timings.iftar before the first setTimings
Null == [time |-> <<>>, date |-> <<>>, readableDate |-> <<>>]

TimingInfo(time, readable) == [time |-> time, date |-> readable, readableDate |-> readable]

\* Mutant of finalSahri: tomorrow's Fajr already at the boundary instant (>=)
finalSahriAtOrAfter(now, today, dataToday, dataTomorrow) ==
  IF now >= parseTime(dataToday.timings.Fajr, today)
    THEN TimingInfo(dataTomorrow.timings.Fajr, dataTomorrow.date.readable)
    ELSE TimingInfo(dataToday.timings.Fajr, dataToday.date.readable)

\* finalSahri: now > sahriToday ? tomorrow's Fajr : today's Fajr
finalSahri(now, today, dataToday, dataTomorrow) ==
  IF now > parseTime(dataToday.timings.Fajr, today)
    THEN TimingInfo(dataTomorrow.timings.Fajr, dataTomorrow.date.readable)
    ELSE TimingInfo(dataToday.timings.Fajr, dataToday.date.readable)

\* Mutant of finalIftar: the Maghrib choice made on the Fajr boundary
finalIftarBySahri(now, today, dataToday, dataTomorrow) ==
  IF now > parseTime(dataToday.timings.Fajr, today)
    THEN TimingInfo(dataTomorrow.timings.Maghrib, dataTomorrow.date.readable)
    ELSE TimingInfo(dataToday.timings.Maghrib, dataToday.date.readable)

\* finalIftar: now > iftarToday ? tomorrow's Maghrib : today's Maghrib
finalIftar(now, today, dataToday, dataTomorrow) ==
  IF now > parseTime(dataToday.timings.Maghrib, today)
    THEN TimingInfo(dataTomorrow.timings.Maghrib, dataTomorrow.date.readable)
    ELSE TimingInfo(dataToday.timings.Maghrib, dataToday.date.readable)

\* The value fetchTimings hands to setTimings
NewTimings(now, today) ==
  LET dataToday == ServiceData(formatDate(today))
      dataTomorrow == ServiceData(formatDate(Tomorrow(today)))
  IN [sahri |-> finalSahri(now, today, dataToday, dataTomorrow),
      iftar |-> finalIftar(now, today, dataToday, dataTomorrow)]

\* dataToday.code === 200 && dataTomorrow.code === 200
BothOk(resToday, resTomorrow) == resToday = "200" /\ resTomorrow = "200"

NoRefresh == [today |-> -1, now |-> -1]
NoOutcome == <<"none", "none">>

\* fetchTimings up to its await: setLoadingTimings(true), today = new Date(), the
\* two requests are sent.  Only the calendar day of today is used afterwards.
fetchTimingsStart ==
  /\ Len(refreshes) < MaxRefreshes
  /\ loadingTimings' = TRUE
  /\ refreshes' = Append(refreshes, [today |-> DayOf(clock) * TicksPerDay])

TimeInit ==
  /\ clock = 0
  /\ timings = [sahri |-> Null, iftar |-> Null]
  /\ loadingTimings = TRUE
  /\ mounted = TRUE
  /\ refreshes = <<[today |-> 0]>>
  /\ shown = NoRefresh
  /\ lastOutcome = NoOutcome

\* Time passes
Tick ==
  /\ clock + 1 < NumDays * TicksPerDay
  /\ clock' = clock + 1
  /\ UNCHANGED <<timings, loadingTimings, mounted, refreshes, shown, lastOutcome, nonTimeVars>>

\* Mutant of IntervalFires: a timer that outlives the component
IntervalFiresLeaked ==
  /\ fetchTimingsStart
  /\ UNCHANGED <<clock, timings, mounted, shown, lastOutcome, nonTimeVars>>

\* setInterval(fetchTimings, 5 * 60 * 1000) fires
IntervalFires ==
  /\ mounted
  /\ fetchTimingsStart
  /\ UNCHANGED <<clock, timings, mounted, shown, lastOutcome, nonTimeVars>>

\* The cleanup of the effect: clearInterval(interval); the component is gone
Teardown ==
  /\ mounted
  /\ mounted' = FALSE
  /\ UNCHANGED <<clock, timings, loadingTimings, refreshes, shown, lastOutcome, nonTimeVars>>

\* Mutant of fetchTimingsSucceeded: the result of a refresh started on an earlier
\* day than the one whose window is shown is discarded
fetchTimingsSucceededFenced(i) ==
  /\ mounted
  /\ IF refreshes[i].today < shown.today
       THEN UNCHANGED <<timings, shown>>
       ELSE /\ timings' = NewTimings(clock, refreshes[i].today)
            /\ shown' = [today |-> refreshes[i].today, now |-> clock]
  /\ loadingTimings' = FALSE
  /\ lastOutcome' = <<"200", "200">>
  /\ refreshes' = RemoveAt(refreshes, i)
  /\ UNCHANGED <<clock, mounted, nonTimeVars>>

\* fetchTimings after its awaits, both bodies carrying code 200: now = new Date(),
\* setTimings, then finally setLoadingTimings(false)
fetchTimingsSucceeded(i) ==
  /\ mounted
  /\ timings' = NewTimings(clock, refreshes[i].today)
  /\ loadingTimings' = FALSE
  /\ shown' = [today |-> refreshes[i].today, now |-> clock]
  /\ lastOutcome' = <<"200", "200">>
  /\ refreshes' = RemoveAt(refreshes, i)
  /\ UNCHANGED <<clock, mounted, nonTimeVars>>

\* Mutant of fetchTimingsFailed: today's response is shown as soon as it is good,
\* whatever happened to tomorrow's
fetchTimingsFailedPartial(i, resToday, resTomorrow) ==
  /\ mounted
  /\ ~BothOk(resToday, resTomorrow)
  /\ timings' = IF resToday = "200"
                  THEN [timings EXCEPT !.sahri =
                         TimingInfo(ServiceData(formatDate(refreshes[i].today)).timings.Fajr,
                                    ServiceData(formatDate(refreshes[i].today)).date.readable)]
                  ELSE timings
  /\ loadingTimings' = FALSE
  /\ lastOutcome' = <<resToday, resTomorrow>>
  /\ refreshes' = RemoveAt(refreshes, i)
  /\ UNCHANGED <<clock, mounted, shown, nonTimeVars>>

\* fetchTimings after its awaits when a fetch was rejected, a body did not parse or
\* a code is not 200: nothing but finally setLoadingTimings(false)
fetchTimingsFailed(i, resToday, resTomorrow) ==
  /\ mounted
  /\ ~BothOk(resToday, resTomorrow)
  /\ loadingTimings' = FALSE
  /\ lastOutcome' = <<resToday, resTomorrow>>
  /\ refreshes' = RemoveAt(refreshes, i)
  /\ UNCHANGED <<clock, timings, mounted, shown, nonTimeVars>>

\* A refresh settling after the component is gone: its state updates are dropped
fetchTimingsUnmounted(i) ==
  /\ ~mounted
  /\ refreshes' = RemoveAt(refreshes, i)
  /\ UNCHANGED <<clock, timings, loadingTimings, mounted, shown, lastOutcome, nonTimeVars>>

TimeNext ==
  \/ Tick
  \/ IntervalFires
  \/ Teardown
  \/ \E i \in 1..Len(refreshes) : fetchTimingsSucceeded(i)
  \/ \E i \in 1..Len(refreshes), a \in Outcomes, b \in Outcomes : fetchTimingsFailed(i, a, b)
  \/ \E i \in 1..Len(refreshes) : fetchTimingsUnmounted(i)

\* ------------------------------------------------------------ pagination
\* Math.ceil(events.length / itemsPerPage)
totalPagesFloor(length) == length \div itemsPerPage
totalPages(length) == (length + itemsPerPage - 1) \div itemsPerPage

\* The effect on [events.length, currentPage]: the value of currentPage once it ran
clampEffectNone(page, length) == page
clampEffect(page, length) ==
  IF page > totalPages(length) /\ totalPages(length) > 0 THEN totalPages(length) ELSE page

\* events.slice((currentPage - 1) * itemsPerPage, currentPage * itemsPerPage).length
currentEventsLength(page, length) ==
  LET from == IF (page - 1) * itemsPerPage < length THEN (page - 1) * itemsPerPage ELSE length
      to == IF page * itemsPerPage < length THEN page * itemsPerPage ELSE length
  IN to - from

NoSnapshot == [length |-> -1, page |-> -1]

\* useState<IftarEvent[]>([]), useState(1)
PageInit ==
  /\ eventsLength = 0
  /\ currentPage = 1
  /\ lastSnapshot = NoSnapshot

\* The onSnapshot listener: setEvents(eventsData), then the clamp effect
onSnapshot(length) ==
  /\ length # eventsLength
  /\ eventsLength' = length
  /\ currentPage' = clampEffect(currentPage, length)
  /\ lastSnapshot' = [length |-> eventsLength, page |-> currentPage]
  /\ UNCHANGED nonPageVars

\* The Prev button: setCurrentPage(prev => Math.max(prev - 1, 1)), then the effect
PrevClicked ==
  /\ totalPages(eventsLength) > 1
  /\ currentPage # 1
  /\ currentPage' = clampEffect(IF currentPage - 1 > 1 THEN currentPage - 1 ELSE 1, eventsLength)
  /\ lastSnapshot' = NoSnapshot
  /\ UNCHANGED <<eventsLength, nonPageVars>>

\* A page-number button: setCurrentPage(i + 1), then the effect
PageClicked(i) ==
  /\ totalPages(eventsLength) > 1
  /\ i + 1 <= totalPages(eventsLength)
  /\ currentPage' = clampEffect(i + 1, eventsLength)
  /\ lastSnapshot' = NoSnapshot
  /\ UNCHANGED <<eventsLength, nonPageVars>>

\* The Next button: setCurrentPage(prev => Math.min(prev + 1, totalPages)), then
\* the effect
NextClicked ==
  /\ totalPages(eventsLength) > 1
  /\ currentPage # totalPages(eventsLength)
  /\ currentPage' = clampEffect(IF currentPage + 1 < totalPages(eventsLength)
                                THEN currentPage + 1 ELSE totalPages(eventsLength), eventsLength)
  /\ lastSnapshot' = NoSnapshot
  /\ UNCHANGED <<eventsLength, nonPageVars>>

PageNext ==
  \/ \E length \in 0..MaxItems : onSnapshot(length)
  \/ PrevClicked
  \/ \E i \in 0..(totalPages(MaxItems) - 1) : PageClicked(i)
  \/ NextClicked

\* ------------------------------------------------------------ admin mode
\* useState('admin123'), and the default fetchAdminPassword writes
DefaultPassword == "admin123"
Passwords == {DefaultPassword, "ramadan"}

\* What window.prompt returns: the text typed (possibly empty), or null on Cancel
PromptNull == "null"
PromptInputs == Passwords \cup {"", PromptNull}

\* settings/admin_config: missing, or { password }
NoConfig == [exists |-> FALSE, password |-> ""]
Config(password) == [exists |-> TRUE, password |-> password]

NoChange == [stage |-> "none", newPass |-> ""]
NoAttempt == [op |-> "none", d |-> 0, pass |-> "", confirm |-> ""]

\* useState(false), useState('admin123'); the store has no admin_config yet; the
\* mount effect has called fetchAdminPassword
AdminInit ==
  /\ isAdmin = [d \in Devices |-> FALSE]
  /\ adminPassword = [d \in Devices |-> DefaultPassword]
  /\ settings = NoConfig
  /\ adminFetch = [d \in Devices |-> "getDoc"]
  /\ passwordChange = [d \in Devices |-> NoChange]
  /\ nprompts = 0
  /\ attempt = NoAttempt

\* fetchAdminPassword after getDoc: setAdminPassword(data().password) when the
\* document exists, else setDoc of the default is sent
fetchAdminPasswordRead(d) ==
  /\ adminFetch[d] = "getDoc"
  /\ IF settings.exists
       THEN /\ adminPassword' = [adminPassword EXCEPT ![d] = settings.password]
            /\ adminFetch' = [adminFetch EXCEPT ![d] = "done"]
       ELSE /\ adminFetch' = [adminFetch EXCEPT ![d] = "setDoc"]
            /\ UNCHANGED adminPassword
  /\ attempt' = NoAttempt
  /\ UNCHANGED <<isAdmin, settings, passwordChange, nprompts, nonAdminVars>>

\* The store applies fetchAdminPassword's setDoc({ password: 'admin123' })
fetchAdminPasswordInit(d) ==
  /\ adminFetch[d] = "setDoc"
  /\ settings' = Config(DefaultPassword)
  /\ adminFetch' = [adminFetch EXCEPT ![d] = "done"]
  /\ attempt' = NoAttempt
  /\ UNCHANGED <<isAdmin, adminPassword, passwordChange, nprompts, nonAdminVars>>

\* getDoc or setDoc of fetchAdminPassword is rejected: the catch block logs
fetchAdminPasswordCaught(d) ==
  /\ adminFetch[d] \in {"getDoc", "setDoc"}
  /\ adminFetch' = [adminFetch EXCEPT ![d] = "done"]
  /\ attempt' = NoAttempt
  /\ UNCHANGED <<isAdmin, adminPassword, settings, passwordChange, nprompts, nonAdminVars>>

\* Mutant of toggleAdmin: a login that takes any text
toggleAdminAnyText(d, pass) ==
  /\ nprompts < MaxPrompts
  /\ nprompts' = nprompts + 1
  /\ IF isAdmin[d]
       THEN /\ pass = PromptNull
            /\ isAdmin' = [isAdmin EXCEPT ![d] = FALSE]
            /\ attempt' = [op |-> "logout", d |-> d, pass |-> "", confirm |-> ""]
       ELSE /\ isAdmin' = [isAdmin EXCEPT ![d] = (pass # PromptNull)]
            /\ attempt' = [op |-> "login", d |-> d, pass |-> pass, confirm |-> ""]
  /\ UNCHANGED <<adminPassword, settings, adminFetch, passwordChange, nonAdminVars>>

\* toggleAdmin: leaves admin mode, or prompts and compares with adminPassword
toggleAdmin(d, pass) ==
  /\ nprompts < MaxPrompts
  /\ nprompts' = nprompts + 1
  /\ IF isAdmin[d]
       THEN /\ pass = PromptNull
            /\ isAdmin' = [isAdmin EXCEPT ![d] = FALSE]
            /\ attempt' = [op |-> "logout", d |-> d, pass |-> "", confirm |-> ""]
       ELSE /\ isAdmin' = [isAdmin EXCEPT ![d] = (pass = adminPassword[d])]
            /\ attempt' = [op |-> "login", d |-> d, pass |-> pass, confirm |-> ""]
  /\ UNCHANGED <<adminPassword, settings, adminFetch, passwordChange, nonAdminVars>>

\* handleChangePassword up to its await: the two prompts, then setDoc is sent.
\* The button is rendered in admin mode only; with no new password the second
\* prompt is not shown.
handleChangePassword(d, newPass, confirmPass) ==
  /\ isAdmin[d]
  /\ passwordChange[d] = NoChange
  /\ nprompts < MaxPrompts
  /\ nprompts' = nprompts + 1
  /\ newPass \in {"", PromptNull} => confirmPass = PromptNull
  /\ attempt' = [op |-> "change", d |-> d, pass |-> newPass, confirm |-> confirmPass]
  /\ IF newPass \in {"", PromptNull} \/ newPass # confirmPass
       THEN UNCHANGED passwordChange
       ELSE passwordChange' = [passwordChange EXCEPT ![d] = [stage |-> "sent", newPass |-> newPass]]
  /\ UNCHANGED <<isAdmin, adminPassword, settings, adminFetch, nonAdminVars>>

\* The store applies handleChangePassword's setDoc({ password: newPass })
setDocApplied(d) ==
  /\ passwordChange[d].stage = "sent"
  /\ settings' = Config(passwordChange[d].newPass)
  /\ passwordChange' = [passwordChange EXCEPT ![d].stage = "ok"]
  /\ attempt' = NoAttempt
  /\ UNCHANGED <<isAdmin, adminPassword, adminFetch, nprompts, nonAdminVars>>

\* handleChangePassword after its await resolved: setAdminPassword(newPass)
handleChangePasswordResolved(d) ==
  /\ passwordChange[d].stage = "ok"
  /\ adminPassword' = [adminPassword EXCEPT ![d] = passwordChange[d].newPass]
  /\ passwordChange' = [passwordChange EXCEPT ![d] = NoChange]
  /\ attempt' = NoAttempt
  /\ UNCHANGED <<isAdmin, settings, adminFetch, nprompts, nonAdminVars>>

\* The store rejects the setDoc: handleChangePassword's catch block alerts
handleChangePasswordCaught(d) ==
  /\ passwordChange[d].stage = "sent"
  /\ passwordChange' = [passwordChange EXCEPT ![d] = NoChange]
  /\ attempt' = NoAttempt
  /\ UNCHANGED <<isAdmin, adminPassword, settings, adminFetch, nprompts, nonAdminVars>>

AdminNext ==
  \/ \E d \in Devices : fetchAdminPasswordRead(d)
  \/ \E d \in Devices : fetchAdminPasswordInit(d)
  \/ \E d \in Devices : fetchAdminPasswordCaught(d)
  \/ \E d \in Devices, pass \in PromptInputs : toggleAdmin(d, pass)
  \/ \E d \in Devices, newPass \in PromptInputs, confirmPass \in PromptInputs :
       handleChangePassword(d, newPass, confirmPass)
  \/ \E d \in Devices : setDocApplied(d)
  \/ \E d \in Devices : handleChangePasswordResolved(d)
  \/ \E d \in Devices : handleChangePasswordCaught(d)

vars == <<voteVars, storageVars, timeVars, pageVars, adminVars>>

\* Every page runs in a browser of its own
OwnStorage == storageOf = [d \in Devices |-> d]

\* All pages are tabs of one browser and use its localStorage
SharedStorage == storageOf = [d \in Devices |-> 1]

Init == VoteInit /\ OwnStorage /\ TimeInit /\ PageInit /\ AdminInit

\* The pages are tabs of one browser, opened on a first visit
TabsInit == VoteInit /\ SharedStorage /\ TimeInit /\ PageInit /\ AdminInit

VoteNext ==
  \/ handleAddEvent
  \/ \E id \in EventIds : handleDelete(id)
  \/ \E d \in Devices, id \in EventIds, type \in VoteTypes : handleVote(d, id, type)
  \/ \E d \in Devices : updateDocApplied(d)
  \/ \E d \in Devices : handleVoteResolved(d)
  \/ \E d \in Devices : handleVoteCaught(d)

\* Every click is made after the previous vote of the device has settled
SeqVoteNext ==
  \/ handleAddEvent
  \/ \E id \in EventIds : handleDelete(id)
  \/ \E d \in Devices, id \in EventIds, type \in VoteTypes :
       calls[d] = <<>> /\ handleVote(d, id, type)
  \/ \E d \in Devices : updateDocApplied(d)
  \/ \E d \in Devices : handleVoteResolved(d)
  \/ \E d \in Devices : handleVoteCaught(d)

\* The page's vote handling against the shared store, clicks overlapping or not
VoteSpec == Init /\ [][VoteNext]_vars

\* The same with every click made after the device's previous vote has settled
SeqVoteSpec == Init /\ [][SeqVoteNext]_vars

\* Votes one after another on a device whose page is reloaded now and then
StorageNext ==
  \/ handleAddEvent
  \/ \E d \in Devices, id \in EventIds, type \in VoteTypes :
       calls[d] = <<>> /\ handleVote(d, id, type)
  \/ \E d \in Devices : updateDocApplied(d)
  \/ \E d \in Devices : handleVoteResolved(d)
  \/ \E d \in Devices : Reload(d)
  \/ \E d \in Devices : mountEffects(d)
  \/ \E d \in Devices : saveEffect(d)

StorageSpec == Init /\ [][StorageNext]_vars

\* Tabs of one browser; the user clicks in one tab at a time, each click after
\* the previous vote of every tab has settled
TabsNext ==
  \/ handleAddEvent
  \/ \E d \in Devices, id \in EventIds, type \in VoteTypes :
       (\A r \in Devices : calls[r] = <<>>) /\ handleVote(d, id, type)
  \/ \E d \in Devices : updateDocApplied(d)
  \/ \E d \in Devices : handleVoteResolved(d)
  \/ \E d \in Devices : Reload(d)
  \/ \E d \in Devices : mountEffects(d)
  \/ \E d \in Devices : saveEffect(d)

TabsSpec == TabsInit /\ [][TabsNext]_vars

\* The prayer-time window and its refreshes
TimeSpec == Init /\ [][TimeNext]_vars

\* The event list's pagination under snapshots and page buttons
PageSpec == Init /\ [][PageNext]_vars

\* Admin login and password change against the store's admin_config
AdminSpec == Init /\ [][AdminNext]_vars

\* ------------------------------------------------- operators of the claims
\* The completed votes of device d on event e, oldest first
HistOn(d, e) == SelectSeq(hist[d], LAMBDA c : c.id = e)

\* Their choices
HistTypes(d, e) == [i \in 1..Len(HistOn(d, e)) |-> HistOn(d, e)[i].type]

RECURSIVE SumContrib(_, _, _)
SumContrib(n, e, f) == IF n = 0 THEN 0 ELSE contrib[n][e][f] + SumContrib(n - 1, e, f)

Unit(type) == [true_votes |-> IF type = "true" THEN 1 ELSE 0,
               false_votes |-> IF type = "false" THEN 1 ELSE 0]

\* The counters of a live document are the initial ones plus what the devices added
CountersAreContributions ==
  \A e \in EventIds : docs[e].exists =>
    \A f \in {"true_votes", "false_votes"} : docs[e][f] = base[e][f] + SumContrib(NumDevices, e, f)

\* In this step the store applies the i-th call of device d
AppliedStep(d, i) ==
  /\ Len(calls'[d]) = Len(calls[d])
  /\ calls[d][i].stage = "sent"
  /\ calls'[d][i].stage = "ok"

\* In this step the oldest call of device d runs its continuation after a success
ResolvedStep(d) ==
  /\ calls[d] # <<>>
  /\ Head(calls[d]).stage = "ok"
  /\ calls'[d] = Tail(calls[d])

CapturedVote(c) == Lookup(c.userVotes, c.id)
Other(type) == IF type = "true" THEN "false" ELSE "true"

\* C1: with the clicks of a device issued one after another from no record, the
\* device's net contribution to an event is (0,0), (+1,0) or (0,+1); once its calls
\* have completed the contribution is +1 on the recorded choice and nothing else,
\* and (0,0) when there is no record, in particular after a toggle-off.
C1_NetContribution ==
  /\ CountersAreContributions
  /\ \A d \in Devices, e \in EventIds :
       /\ contrib[d][e] \in {NewCounters, Unit("true"), Unit("false")}
       /\ calls[d] = <<>> =>
            /\ contrib[d][e] = IF e \in DOMAIN userVotes[d] THEN Unit(userVotes[d][e]) ELSE NewCounters
            /\ (HistOn(d, e) # <<>> /\ HistOn(d, e)[Len(HistOn(d, e))].branch = "withdraw")
                 => contrib[d][e] = NewCounters

C1_Witness ==
  \E d \in Devices, e \in EventIds :
    /\ calls[d] = <<>>
    /\ Len(HistOn(d, e)) = 3
    /\ HistOn(d, e)[3].branch = "withdraw"
    /\ HistOn(d, e)[2].branch = "change"
    /\ contrib[d][e] = NewCounters

\* C2: the counters of every event in the store are never negative.
C2_NonNegativeCounters ==
  \A e \in EventIds : docs[e].exists => docs[e].true_votes >= 0 /\ docs[e].false_votes >= 0

\* C3: a vote from no recorded choice adds exactly 1 to the counter of the choice,
\* leaves the other counter as it is, and records the choice.
C3_NewVote ==
  [][\A d \in Devices :
       /\ \A i \in 1..Len(calls[d]) :
            (AppliedStep(d, i) /\ CapturedVote(calls[d][i]) = Undefined) =>
              LET c == calls[d][i] IN
                /\ docs'[c.id][Field(c.type)] = docs[c.id][Field(c.type)] + 1
                /\ docs'[c.id][Field(Other(c.type))] = docs[c.id][Field(Other(c.type))]
       /\ (ResolvedStep(d) /\ CapturedVote(Head(calls[d])) = Undefined) =>
            Lookup(userVotes'[d], Head(calls[d]).id) = Head(calls[d]).type
    ]_vars

C3_Witness ==
  \E d \in Devices, e \in EventIds :
    /\ calls[d] = <<>>
    /\ Len(HistOn(d, e)) = 1
    /\ HistOn(d, e)[1].branch = "new"
    /\ Lookup(userVotes[d], e) = HistOn(d, e)[1].type
    /\ docs[e].exists
    /\ docs[e][Field(HistOn(d, e)[1].type)] = base[e][Field(HistOn(d, e)[1].type)] + 1

\* C4: a vote that differs from the recorded choice takes 1 from the counter of the
\* recorded choice, adds 1 to the counter of the new choice and records the new
\* choice; an event at true_votes=2, false_votes=1 voted false and then true by a
\* device without a record (and by nobody else) ends at 3 and 1 with record true.
C4_ChangeVote ==
  /\ [][\A d \in Devices :
          /\ \A i \in 1..Len(calls[d]) :
               (AppliedStep(d, i) /\ CapturedVote(calls[d][i]) = Other(calls[d][i].type)) =>
                 LET c == calls[d][i] IN
                   /\ docs'[c.id][Field(c.type)] = docs[c.id][Field(c.type)] + 1
                   /\ docs'[c.id][Field(Other(c.type))] = docs[c.id][Field(Other(c.type))] - 1
          /\ (ResolvedStep(d) /\ CapturedVote(Head(calls[d])) = Other(Head(calls[d]).type)) =>
               Lookup(userVotes'[d], Head(calls[d]).id) = Head(calls[d]).type
       ]_vars
  /\ [](\A d \in Devices, e \in EventIds :
          ( /\ calls[d] = <<>>
            /\ HistTypes(d, e) = <<"false", "true">>
            /\ docs[e].exists
            /\ \A o \in Devices \ {d} : contrib[o][e] = NewCounters )
          => /\ docs[e].true_votes = base[e].true_votes + 1
             /\ docs[e].false_votes = base[e].false_votes
             /\ Lookup(userVotes[d], e) = "true")

C4_Witness ==
  \E d \in Devices :
    /\ calls[d] = <<>>
    /\ HistTypes(d, 1) = <<"false", "true">>
    /\ base[1] = [true_votes |-> 2, false_votes |-> 1]
    /\ docs[1] = Doc([true_votes |-> 3, false_votes |-> 1])
    /\ Lookup(userVotes[d], 1) = "true"

\* C5: a vote equal to the recorded choice takes exactly 1 from that counter, leaves
\* the other counter as it is and removes the record; voting the same choice twice
\* from no record leaves the device's contribution to both counters at 0 and no
\* record.
C5_ToggleOff ==
  /\ [][\A d \in Devices :
          /\ \A i \in 1..Len(calls[d]) :
               (AppliedStep(d, i) /\ CapturedVote(calls[d][i]) = calls[d][i].type) =>
                 LET c == calls[d][i] IN
                   /\ docs'[c.id][Field(c.type)] = docs[c.id][Field(c.type)] - 1
                   /\ docs'[c.id][Field(Other(c.type))] = docs[c.id][Field(Other(c.type))]
          /\ (ResolvedStep(d) /\ CapturedVote(Head(calls[d])) = Head(calls[d]).type) =>
               Head(calls[d]).id \notin DOMAIN userVotes'[d]
       ]_vars
  /\ [](\A d \in Devices, e \in EventIds, t \in VoteTypes :
          (calls[d] = <<>> /\ HistTypes(d, e) = <<t, t>>)
          => /\ contrib[d][e] = NewCounters
             /\ e \notin DOMAIN userVotes[d]
             /\ (docs[e].exists /\ \A o \in Devices \ {d} : contrib[o][e] = NewCounters)
                  => (docs[e].true_votes = base[e].true_votes /\ docs[e].false_votes = base[e].false_votes))

C5_Witness ==
  \E d \in Devices, e \in EventIds :
    /\ calls[d] = <<>>
    /\ HistTypes(d, e) = <<"true", "true">>
    /\ e \notin DOMAIN userVotes[d]
    /\ docs[e].exists
    /\ docs[e].true_votes = base[e].true_votes

\* C6: over the completed votes of one device on one event, each counter moves by
\* -1, 0 or +1 on behalf of the device, and the record is the choice of the last
\* completed vote unless that vote was a toggle-off, in which case there is none.
C6_DeltaAndRecord ==
  \A d \in Devices, e \in EventIds :
    /\ contrib[d][e].true_votes \in {-1, 0, 1}
    /\ contrib[d][e].false_votes \in {-1, 0, 1}
    /\ (calls[d] = <<>> /\ HistOn(d, e) # <<>>) =>
         LET l == HistOn(d, e)[Len(HistOn(d, e))] IN
           IF l.branch = "withdraw"
             THEN e \notin DOMAIN userVotes[d]
             ELSE Lookup(userVotes[d], e) = l.type

C6_Witness ==
  \E d \in Devices :
    /\ calls[d] = <<>>
    /\ docs[2].exists
    /\ base[2] = NewCounters
    /\ Len(HistOn(d, 2)) = 2
    /\ HistOn(d, 2)[2].branch = "change"
    /\ Lookup(userVotes[d], 2) = HistOn(d, 2)[2].type

\* C7 as stated: true then false from no record leaves the device's contribution at
\* true_votes - 1, false_votes + 1 relative to the values before the first vote.
C7_SwitchAsStated ==
  \A d \in Devices, e \in EventIds :
    (calls[d] = <<>> /\ HistTypes(d, e) = <<"true", "false">>)
      => contrib[d][e] = [true_votes |-> -1, false_votes |-> 1]

\* C7 amended: true then false from no record leaves true_votes as it was before the
\* first vote and false_votes one higher.
C7_SwitchNet ==
  \A d \in Devices, e \in EventIds :
    (calls[d] = <<>> /\ HistTypes(d, e) = <<"true", "false">>)
      => /\ contrib[d][e] = [true_votes |-> 0, false_votes |-> 1]
         /\ (docs[e].exists /\ \A o \in Devices \ {d} : contrib[o][e] = NewCounters)
              => (docs[e].true_votes = base[e].true_votes
                  /\ docs[e].false_votes = base[e].false_votes + 1)

C7_Witness ==
  \E d \in Devices, e \in EventIds :
    /\ calls[d] = <<>>
    /\ HistTypes(d, e) = <<"true", "false">>
    /\ docs[e].exists
    /\ docs[e].true_votes = base[e].true_votes
    /\ docs[e].false_votes = base[e].false_votes + 1

\* The responses of the refresh whose window is displayed
ShownToday == ServiceData(formatDate(shown.today))
ShownTomorrow == ServiceData(formatDate(Tomorrow(shown.today)))

\* Today's boundary instants of that refresh: the service's time of day on the
\* calendar day of the refresh
FajrInstant == parseTime(ShownToday.timings.Fajr, shown.today)
MaghribInstant == parseTime(ShownToday.timings.Maghrib, shown.today)

TodaysFajr == TimingInfo(ShownToday.timings.Fajr, ShownToday.date.readable)
TomorrowsFajr == TimingInfo(ShownTomorrow.timings.Fajr, ShownTomorrow.date.readable)
TodaysMaghrib == TimingInfo(ShownToday.timings.Maghrib, ShownToday.date.readable)
TomorrowsMaghrib == TimingInfo(ShownTomorrow.timings.Maghrib, ShownTomorrow.date.readable)

\* C8: for Fajr and for Maghrib alike, a successful refresh shows tomorrow's time
\* and date label exactly when now is strictly after today's boundary instant, and
\* today's otherwise, in particular when now is the boundary instant itself.
C8_WindowSelection ==
  shown # NoRefresh =>
    /\ TodaysFajr # TomorrowsFajr /\ TodaysMaghrib # TomorrowsMaghrib
    /\ (timings.sahri = TomorrowsFajr) <=> (shown.now > FajrInstant)
    /\ (timings.sahri = TodaysFajr) <=> (shown.now <= FajrInstant)
    /\ (timings.iftar = TomorrowsMaghrib) <=> (shown.now > MaghribInstant)
    /\ (timings.iftar = TodaysMaghrib) <=> (shown.now <= MaghribInstant)

\* a refresh made at the Maghrib instant: past Fajr, so tomorrow's Fajr, and not
\* past Maghrib, so today's Maghrib
C8_Witness ==
  /\ shown # NoRefresh
  /\ shown.now = MaghribInstant
  /\ shown.now > FajrInstant
  /\ timings.iftar = TodaysMaghrib
  /\ timings.sahri = TomorrowsFajr

\* C9 as stated: a refresh between today's Fajr and today's Maghrib shows today's
\* Fajr next to tomorrow's Maghrib.
C9_BetweenAsStated ==
  (shown # NoRefresh /\ FajrInstant < shown.now /\ shown.now < MaghribInstant)
    => (timings.sahri = TodaysFajr /\ timings.iftar = TomorrowsMaghrib)

\* C9 amended: a refresh after today's Fajr and not after today's Maghrib shows
\* tomorrow's Fajr next to today's Maghrib; today's Fajr next to tomorrow's Maghrib
\* is never shown.
C9_BetweenBoundaries ==
  shown # NoRefresh =>
    /\ (FajrInstant < shown.now /\ shown.now <= MaghribInstant)
         => (timings.sahri = TomorrowsFajr /\ timings.iftar = TodaysMaghrib)
    /\ ~(timings.sahri = TodaysFajr /\ timings.iftar = TomorrowsMaghrib)

C9_Witness ==
  /\ shown # NoRefresh
  /\ FajrInstant < shown.now
  /\ shown.now < MaghribInstant
  /\ timings.sahri = TomorrowsFajr
  /\ timings.iftar = TodaysMaghrib
  /\ timings.sahri.date # timings.iftar.date

\* C10: a refresh in which a request fails or answers with a code other than 200
\* leaves the window as it was (the placeholder before the first success), and the
\* two displayed values are always those of one and the same refresh.
C10_NoPartialWindow ==
  /\ [][(Len(refreshes') < Len(refreshes) /\ lastOutcome' # <<"200", "200">>)
          => timings' = timings]_vars
  /\ [](/\ shown = NoRefresh => timings = [sahri |-> Null, iftar |-> Null]
        /\ shown # NoRefresh =>
             /\ timings.sahri \in {TodaysFajr, TomorrowsFajr}
             /\ timings.iftar \in {TodaysMaghrib, TomorrowsMaghrib})

\* a refresh whose request for tomorrow answered with another code settled on a
\* later day than the displayed window was fetched, and the window is still shown
C10_Witness ==
  /\ lastOutcome = <<"200", "not200">>
  /\ refreshes = <<>>
  /\ shown # NoRefresh
  /\ DayOf(clock) > DayOf(shown.now)
  /\ timings.sahri \in {TodaysFajr, TomorrowsFajr}
  /\ timings.iftar \in {TodaysMaghrib, TomorrowsMaghrib}
  /\ loadingTimings = FALSE

\* ------------------------------------------------------------------- C11
\* The last step was a snapshot with fewer events than the page held
Shrunk == lastSnapshot # NoSnapshot /\ eventsLength < lastSnapshot.length

\* totalPages is the least number of pages of itemsPerPage that hold all events
TotalPagesIsCeiling ==
  \A length \in 0..MaxItems :
    /\ totalPages(length) * itemsPerPage >= length
    /\ (totalPages(length) - 1) * itemsPerPage < length

\* C11 as stated: totalPages is the ceiling of the event count over 6, and after
\* every snapshot that shrinks the event count, 1 <= currentPage <= totalPages.
C11_ClampAsStated ==
  /\ TotalPagesIsCeiling
  /\ Shrunk => (1 <= currentPage /\ currentPage <= totalPages(eventsLength))

\* C11: totalPages is the ceiling of the event count over 6 (13 events give 3
\* pages); after a snapshot that shrinks the event count to a positive number,
\* 1 <= currentPage <= totalPages and the page shown is not empty (6 events left
\* while on page 3 of 13 put the viewer on page 1); after a snapshot that
\* leaves no event, totalPages is 0 and currentPage is what it was.
C11_Clamp ==
  /\ TotalPagesIsCeiling
  /\ totalPages(13) = 3
  /\ (Shrunk /\ eventsLength > 0) =>
       /\ 1 <= currentPage /\ currentPage <= totalPages(eventsLength)
       /\ currentEventsLength(currentPage, eventsLength) > 0
  /\ (Shrunk /\ eventsLength = 0) =>
       /\ totalPages(eventsLength) = 0
       /\ currentPage = lastSnapshot.page
  /\ (lastSnapshot = [length |-> 13, page |-> 3] /\ eventsLength = 6) => currentPage = 1

C11_Witness ==
  /\ lastSnapshot = [length |-> 13, page |-> 3]
  /\ eventsLength = 6
  /\ currentPage = 1

\* ------------------------------------------------------------------- C12
\* true_votes + false_votes of a document
VoteSum(doc) == doc.true_votes + doc.false_votes

\* In this step the store applies a switch (a call that found the other choice
\* recorded) of device d
SwitchApplied(d, i) ==
  /\ AppliedStep(d, i)
  /\ Branch(CapturedVote(calls[d][i]), calls[d][i].type) = "change"

CaughtStep(d) ==
  /\ Len(calls'[d]) < Len(calls[d])
  /\ hist'[d] = hist[d]

\* Calls issued that neither completed nor are in flight: the failed ones
RECURSIVE SettledOrInFlight(_)
SettledOrInFlight(n) ==
  IF n = 0 THEN 0 ELSE Len(hist[n]) + Len(calls[n]) + SettledOrInFlight(n - 1)

FailedCalls == ncalls - SettledOrInFlight(NumDevices)

\* C13: when the store write of a vote fails, also on an event deleted
\* meanwhile, the call ends in its catch block: the device's userVotes and its
\* localStorage value are what they were, the store is untouched, the failed
\* call is gone without a new call taking its place, and the device is below
\* its limit of calls in flight, so the page takes the next click.
C13_FailedWriteRetainsState ==
  [][\A d \in Devices :
       CaughtStep(d) =>
         /\ userVotes' = userVotes
         /\ localStorage' = localStorage
         /\ docs' = docs
         /\ contrib' = contrib
         /\ ncalls' = ncalls
         /\ \E i \in 1..Len(calls[d]) :
              /\ calls[d][i].stage = "sent"
              /\ calls'[d] = RemoveAt(calls[d], i)
         /\ \A r \in Devices \ {d} : calls'[r] = calls[r]
         /\ Len(calls'[d]) < MaxInflight]_vars

\* A device still holds its record of an event that has been deleted, a write of
\* a vote has failed, and a vote was completed
C13_Witness ==
  /\ FailedCalls > 0
  /\ \E d \in Devices : \E e \in EventIds :
       /\ e < nextId /\ ~docs[e].exists
       /\ Lookup(userVotes[d], e) # Undefined
       /\ localStorage[d] = JSONstringify(userVotes[d])
       /\ calls[d] = <<>>

\* ------------------------------------------------------------------- C14
\* The step is a login of device d with a text other than the password it holds
LoginMismatch(d) ==
  /\ attempt' = [op |-> "login", d |-> d, pass |-> attempt'.pass, confirm |-> ""]
  /\ attempt'.pass # adminPassword[d]
  /\ ~isAdmin[d]

\* The step is a password change of device d whose confirmation differs
ChangeMismatch(d) ==
  /\ attempt'.op = "change"
  /\ attempt'.d = d
  /\ attempt'.pass # attempt'.confirm

\* C14: a login with a text other than the held admin password leaves admin mode
\* off, and a password change whose confirmation differs from the new password
\* sends nothing to the store and leaves adminPassword as it was; neither
\* changes anything else of the admin state.
C14_RejectOnMismatch ==
  [][\A d \in Devices :
       /\ LoginMismatch(d) =>
            /\ isAdmin'[d] = FALSE
            /\ UNCHANGED <<isAdmin, adminPassword, settings, adminFetch, passwordChange>>
       /\ ChangeMismatch(d) =>
            /\ passwordChange'[d] = NoChange
            /\ UNCHANGED <<isAdmin, adminPassword, settings, adminFetch, passwordChange>>]_vars

\* A device in admin mode has typed two different passwords into the change
\* prompts: the store and the held password are what an earlier change made
\* them, and no write is in flight
C14_Witness ==
  /\ attempt.op = "change"
  /\ attempt.pass \in Passwords
  /\ attempt.confirm \in Passwords
  /\ attempt.pass # attempt.confirm
  /\ isAdmin[attempt.d]
  /\ settings = Config(attempt.confirm)
  /\ adminPassword[attempt.d] = attempt.confirm
  /\ adminPassword[attempt.d] # DefaultPassword
  /\ passwordChange[attempt.d] = NoChange

\* ------------------------------------------------------------------- C15
\* C15: the key is read by the mount effect only, and every change of userVotes
\* is followed by the save effect: whenever the page has processed its changes
\* of userVotes (no mount effect or render is pending), localStorage holds
\* JSON.stringify(userVotes); userVotes is set from the stored text in the mount
\* step alone, and every other change of it writes the new mapping in the same
\* step.
C15_StoredIsSerialization ==
  [][\A d \in Devices :
       /\ startup'[d] = "ready" => localStorage'[d] = JSONstringify(userVotes'[d])
       /\ (startup[d] = "mounting" /\ startup'[d] = "loaded") =>
            userVotes'[d] = JSONparse(localStorage[d])
       /\ (startup[d] = "ready" /\ startup'[d] = "ready" /\ userVotes'[d] # userVotes[d]) =>
            /\ ResolvedStep(d)
            /\ userVotes'[d] = NextUserVotes(Head(calls[d]).userVotes, Head(calls[d]).id,
                                             Head(calls[d]).type)]_vars

\* A device whose page has been reloaded holds a record that three completed
\* votes and the reload have left, and the key holds its serialization
C15_Witness ==
  \E d \in Devices :
    /\ nreloads > 0
    /\ startup[d] = "ready"
    /\ userVotes[d] # EmptyVotes
    /\ Len(hist[d]) = 3
    /\ localStorage[d] = JSONstringify(userVotes[d])

\* ------------------------------------------------------------------- C16
\* C16: the cleanup of the effect clears the interval: once the component is
\* torn down it stays torn down, and no step starts a refresh (no fetchTimings
\* call is added to those awaiting their responses, loadingTimings is not set).
C16_TimerCleared ==
  [][~mounted =>
       /\ ~mounted'
       /\ Len(refreshes') <= Len(refreshes)
       /\ loadingTimings' = loadingTimings
       /\ timings' = timings]_vars

\* The component was torn down with a refresh in flight, that refresh has
\* settled, and the clock has run to its end with no refresh started
C16_Witness ==
  /\ ~mounted
  /\ loadingTimings
  /\ refreshes = <<>>
  /\ clock = NumDays * TicksPerDay - 1

\* ------------------------------------------------------------------- C17
\* In this step the i-th refresh in flight settles with both bodies carrying
\* code 200
SucceededStep(i) ==
  /\ mounted
  /\ refreshes' = RemoveAt(refreshes, i)
  /\ lastOutcome' = <<"200", "200">>
  /\ loadingTimings' = FALSE

\* C17: nothing fences a refresh.  A refresh started on an earlier day than the
\* refresh whose window is shown, settling after it, still calls setTimings: the
\* window becomes the one computed from the earlier refresh's today and
\* responses, replacing the later refresh's window, and no refresh in flight is
\* cancelled by it.
C17_StaleRefreshOverwrites ==
  [][\A i \in 1..Len(refreshes) :
       (SucceededStep(i) /\ refreshes[i].today < shown.today) =>
         /\ timings' = NewTimings(clock, refreshes[i].today)
         /\ shown' = [today |-> refreshes[i].today, now |-> clock]
         /\ Len(refreshes') = Len(refreshes) - 1]_vars

\* The window shown was computed by a refresh from a today earlier than the day
\* it settled on, while a refresh started on a later day was in flight, and it
\* is not the window a refresh started at that moment would have shown
C17_Witness ==
  /\ shown # NoRefresh
  /\ lastOutcome = <<"200", "200">>
  /\ shown.today < DayOf(shown.now) * TicksPerDay
  /\ timings = NewTimings(shown.now, shown.today)
  /\ timings # NewTimings(shown.now, DayOf(shown.now) * TicksPerDay)
  /\ refreshes # <<>>
  /\ refreshes[1].today > shown.today
  /\ clock = shown.now

\* ------------------------------------------------------------------- C18
\* C18: also when a device clicks on an event again before its earlier click's
\* updateDoc has resolved, its net contribution to the event is (0,0), (+1,0) or
\* (0,+1): at most +1, on at most one counter, never below 0.
C18_OverlappingClicksAreSequential ==
  \A d \in Devices, e \in EventIds :
    \/ contrib[d][e] = NewCounters
    \/ contrib[d][e] = Unit("true")
    \/ contrib[d][e] = Unit("false")

\* ------------------------------------------------------------------- C19
\* C19: the step in which a vote of a device on one event completes leaves the
\* device's recorded vote of every other event as it was, also when the device
\* has votes on two events in flight at once.
C19_OtherRecordsKept ==
  [][\A d \in Devices :
       ResolvedStep(d) =>
         \A e \in EventIds \ {Head(calls[d]).id} :
           Lookup(userVotes'[d], e) = Lookup(userVotes[d], e)]_vars

\* ------------------------------------------------------------------- C20
\* The devices whose record of event e is type
Recorded(e, type) == {d \in Devices : Lookup(userVotes[d], e) = type}

\* C20: with every device voting one click after another from an empty record,
\* in every state with no vote in flight the counters of an event that has not
\* been deleted are the ones it had before the devices voted plus, for
\* true_votes, the number of devices whose record of it is 'true' and, for
\* false_votes, the number whose record is 'false'.
C20_TallyConservation ==
  (\A d \in Devices : calls[d] = <<>>) =>
    \A e \in EventIds : docs[e].exists =>
      /\ docs[e].true_votes = base[e].true_votes + Cardinality(Recorded(e, "true"))
      /\ docs[e].false_votes = base[e].false_votes + Cardinality(Recorded(e, "false"))

\* No vote is in flight and an event created with both counters 0 holds one
\* device's 'true' and another's 'false', one of them reached by a switch
C20_Witness ==
  /\ \A d \in Devices : calls[d] = <<>>
  /\ \E e \in EventIds :
       /\ docs[e].exists
       /\ base[e] = NewCounters
       /\ Cardinality(Recorded(e, "true")) = 1
       /\ Cardinality(Recorded(e, "false")) = 1
       /\ docs[e].true_votes = 1
       /\ docs[e].false_votes = 1
       /\ \E d \in Devices : Len(HistOn(d, e)) = 2

\* ------------------------------------------------------------------- C21
\* C21: whenever a device enters admin mode while the store holds an
\* admin_config document, the text entered is the password of that document,
\* also while the device's startup read is pending and after another device
\* has rewritten the password.
C21_OnlyStorePassword ==
  [][\A d \in Devices :
       (~isAdmin[d] /\ isAdmin'[d] /\ settings.exists) =>
         /\ attempt'.op = "login"
         /\ attempt'.d = d
         /\ attempt'.pass = settings.password]_vars

\* ------------------------------------------------------------------- C22
\* In this step the startup effects of device d's page settle
StartupSettles(d) == startup[d] = "loaded" /\ startup'[d] = "ready"

\* C22: when the startup effects of a reloaded page have settled, userVotes is
\* the mapping that was stored under the key before the reload and the key
\* holds the same text again; in particular stored votes are not replaced by
\* the empty mapping.
C22_ReloadRoundTrip ==
  [][\A d \in Devices :
       StartupSettles(d) =>
         /\ userVotes'[d] = JSONparse(persisted[d])
         /\ JSONstringify(userVotes'[d]) = persisted[d]
         /\ localStorage'[d] = persisted[d]
         /\ persisted[d] # JSONstringify(EmptyVotes) =>
              /\ userVotes'[d] # EmptyVotes
              /\ localStorage'[d] # JSONstringify(EmptyVotes)]_vars

\* A page has been reloaded and every startup has settled: every device holds
\* a record of each vote it completed, one device the records of two events,
\* and each key holds the text of its device's mapping
C22_Witness ==
  /\ nreloads > 0
  /\ \A d \in Devices :
       /\ startup[d] = "ready"
       /\ calls[d] = <<>>
       /\ userVotes[d] # EmptyVotes
       /\ localStorage[d] = JSONstringify(userVotes[d])
       /\ Cardinality(DOMAIN userVotes[d]) = Len(hist[d])
  /\ \E d \in Devices : Cardinality(localStorage[d]) = 2

\* ------------------------------------------------------------------- C23
\* The pages that use the localStorage of browser b
PagesOf(b) == {d \in Devices : storageOf[d] = b}

\* What the first n pages that use browser b have added to field f of event e
RECURSIVE BrowserContrib(_, _, _, _)
BrowserContrib(n, b, e, f) ==
  IF n = 0 THEN 0
  ELSE (IF storageOf[n] = b THEN contrib[n][e][f] ELSE 0) + BrowserContrib(n - 1, b, e, f)

\* C23: with the pages of one browser sharing the key and the user voting in
\* one page at a time, the browser's net contribution to an event, over all its
\* pages, is (0,0), (+1,0) or (0,+1), and when no vote or startup is pending
\* the key holds the recorded vote of every page.
C23_RecordIsPerDevice ==
  \A b \in Devices :
    /\ \A e \in EventIds :
         LET t == BrowserContrib(NumDevices, b, e, "true_votes")
             f == BrowserContrib(NumDevices, b, e, "false_votes")
         IN <<t, f>> \in {<<0, 0>>, <<1, 0>>, <<0, 1>>}
    /\ (\A d \in Devices : calls[d] = <<>> /\ startup[d] = "ready") =>
         \A d \in PagesOf(b) : JSONstringify(userVotes[d]) \subseteq localStorage[b]

====
